---- MODULE Spec2Model ----
(***************************************************************************)
(* A model of the PII anonymizer API (src/main.py): the engine handles set *)
(* by the lifespan manager, pydantic's validation of the body of           *)
(* POST /anonymize, and the handler anonymize_text split at its two        *)
(* blocking collaborator calls (AnalyzerEngine.analyze and                 *)
(* AnonymizerEngine.anonymize).                                            *)
(*                                                                         *)
(* Texts are sequences of one-character strings; every other string of the *)
(* program (language codes, entity types, strategy names) is an atomic     *)
(* TLA+ string.  Messages are sequences of string tokens.                  *)
(***************************************************************************)
EXTENDS Integers, Sequences, FiniteSets, TLC

\* ------------------------------------------------------------- bounds
\* Config.MAX_TEXT_LENGTH, scaled down from its default of 10000.
MAX_TEXT_LENGTH == 2
\* The longest list the Detector returns.
MaxEntities == 2
\* The number of request slots (requests in flight at once).
NumReq == 2
MaxClock == 2

Reqs == 1..NumReq
\* The slots the sequential specification Spec uses.
SeqReqs == {1}

\* ------------------------------------------------------ configuration
DEFAULT_LANGUAGE == "en"
SUPPORTED_LANGUAGES == <<"en", "es", "fr", "de", "it">>

AnonymizationStrategy == {"replace", "redact", "hash", "mask", "encrypt"}

EntityType ==
  {"PERSON", "EMAIL_ADDRESS", "PHONE_NUMBER", "CREDIT_CARD", "IBAN_CODE",
   "IP_ADDRESS", "DATE_TIME", "LOCATION", "ORGANIZATION", "URL", "US_SSN",
   "US_PASSPORT", "US_DRIVER_LICENSE"}

\* HTTP status codes used by the handlers.
HTTP_200_OK == 200
HTTP_400_BAD_REQUEST == 400
HTTP_422_UNPROCESSABLE_ENTITY == 422
HTTP_500_INTERNAL_SERVER_ERROR == 500
HTTP_503_SERVICE_UNAVAILABLE == 503

\* ------------------------------------------------------------ helpers
Range(s) == {s[i] : i \in DOMAIN s}

\* All sequences over S of length at most n.
SeqsUpTo(S, n) == UNION {[1..k -> S] : k \in 0..n}

\* Python's None and a present Optional value.
None == [some |-> FALSE]
Some(x) == [some |-> TRUE, val |-> x]

\* JSON values of a request body: a key that is absent, a value of a type
\* the field cannot accept (an array where a string or object is expected,
\* as in tests/test_code.py:258-265), a string, an array, an object.
JAbsent == [tag |-> "absent"]
JBad == [tag |-> "bad"]
JStr(s) == [tag |-> "str", val |-> s]
JArr(a) == [tag |-> "arr", val |-> a]
JObj(o) == [tag |-> "obj", val |-> o]

\* ", ".join(items), as a sequence of tokens.
RECURSIVE Join(_)
Join(items) ==
  IF Len(items) = 0 THEN <<>>
  ELSE IF Len(items) = 1 THEN <<items[1]>>
  ELSE <<items[1], ", ">> \o Join(Tail(items))

\* ---------------------------------------------------------- validation
\* One entry of the 422 response's detail list.
ValidationIssue(loc, msg) == [loc |-> loc, msg |-> msg]

\* Mutant of TextTooLong: the bound is off by one.
TextTooLong_OffByOne(s) == Len(s) >= MAX_TEXT_LENGTH

\* Field(..., min_length=1, max_length=Config.MAX_TEXT_LENGTH) on a str.
TextTooShort(s) == Len(s) < 1
TextTooLong(s) == Len(s) > MAX_TEXT_LENGTH

\* The errors pydantic reports for the field text.
ValidateText(j) ==
  IF j.tag = "absent" THEN {ValidationIssue("text", <<"field required">>)}
  ELSE IF j.tag # "str" THEN {ValidationIssue("text", <<"str type expected">>)}
  ELSE IF TextTooShort(j.val)
    THEN {ValidationIssue("text", <<"ensure this value has at least 1 characters">>)}
  ELSE IF TextTooLong(j.val)
    THEN {ValidationIssue("text", <<"ensure this value has at most MAX_TEXT_LENGTH characters">>)}
  ELSE {}

\* The ValueError message of AnonymizeRequest.validate_language.
LanguageNotSupportedMessage(v) ==
  <<"Language '", v, "' not supported. Supported languages: ">>
    \o Join(SUPPORTED_LANGUAGES)

\* Mutant of LanguageRejected: only the default language is accepted.
LanguageRejected_OnlyDefault(v) == v # DEFAULT_LANGUAGE

\* The validator's test: v not in Config.SUPPORTED_LANGUAGES.
LanguageRejected(v) == v \notin Range(SUPPORTED_LANGUAGES)

\* The errors pydantic reports for the field language.  The validator does
\* not run on the default of an omitted field.
ValidateLanguage(j) ==
  IF j.tag = "absent" THEN {}
  ELSE IF j.tag # "str" THEN {ValidationIssue("language", <<"str type expected">>)}
  ELSE IF LanguageRejected(j.val)
    THEN {ValidationIssue("language", LanguageNotSupportedMessage(j.val))}
  ELSE {}

\* The value of request.language once validation passed.
LanguageValue(j) == IF j.tag = "absent" THEN DEFAULT_LANGUAGE ELSE j.val

\* The errors pydantic reports for the field config (an AnonymizationConfig).
ValidateConfig(j) ==
  IF j.tag = "absent" THEN {}
  ELSE IF j.tag # "obj" THEN {ValidationIssue("config", <<"value is not a valid dict">>)}
  ELSE
    (IF j.val.strategy.tag = "str" /\ j.val.strategy.val \notin AnonymizationStrategy
       THEN {ValidationIssue("config.strategy", <<"value is not a valid enumeration member">>)}
       ELSE {})
    \cup
    (IF j.val.entities_to_anonymize.tag = "arr"
        /\ ~(Range(j.val.entities_to_anonymize.val) \subseteq EntityType)
       THEN {ValidationIssue("config.entities_to_anonymize", <<"value is not a valid enumeration member">>)}
       ELSE {})

\* The AnonymizationConfig built from a valid raw object: field defaults
\* apply to the keys the caller omitted.
AnonymizationConfig(o) ==
  [strategy |-> IF o.strategy.tag = "absent" THEN "replace" ELSE o.strategy.val,
   entities_to_anonymize |->
     IF o.entities_to_anonymize.tag = "absent" THEN None
     ELSE Some(o.entities_to_anonymize.val),
   replacement_text |->
     IF o.replacement_text.tag = "absent" THEN None ELSE Some(o.replacement_text.val),
   mask_char |-> IF o.mask_char.tag = "absent" THEN "*" ELSE o.mask_char.val,
   hash_type |-> IF o.hash_type.tag = "absent" THEN "sha256" ELSE o.hash_type.val]

\* All the errors of a body.
ValidationErrors(b) ==
  ValidateText(b.text) \cup ValidateLanguage(b.language) \cup ValidateConfig(b.config)

\* The AnonymizeRequest built from a body that passed validation.
AnonymizeRequest(b) ==
  [text |-> b.text.val,
   language |-> LanguageValue(b.language),
   config |-> IF b.config.tag = "absent" THEN None
              ELSE Some(AnonymizationConfig(b.config.val))]

\* Mutant of RequestRejected: a failure of the language validator does not
\* stop the request.
RequestRejected_IgnoresValidator(errs) ==
  \E e \in errs : e.loc # "language" \/ e.msg = <<"str type expected">>

\* FastAPI answers 422 without calling the handler when the body has errors.
RequestRejected(errs) == errs # {}

\* -------------------------------------------------------------- inputs
Chars == {"a", "b"}
Texts == SeqsUpTo(Chars, MAX_TEXT_LENGTH + 1)

BodyTexts == {JAbsent, JBad} \cup {JStr(t) : t \in Texts}
BodyLanguages == {JAbsent, JBad, JStr("en"), JStr("it"), JStr("xx")}

\* config.entities_to_anonymize as sent: omitted, empty, one type, two types.
RequestedEntities ==
  {JAbsent, JArr(<<>>), JArr(<<"PERSON">>), JArr(<<"EMAIL_ADDRESS", "PERSON">>)}

\* The strategy parameters as sent: all omitted, all set, an empty
\* replacement_text.
StrategyParams ==
  {[replacement_text |-> JAbsent, mask_char |-> JAbsent, hash_type |-> JAbsent],
   [replacement_text |-> JStr("<X>"), mask_char |-> JStr("#"), hash_type |-> JStr("md5")],
   [replacement_text |-> JStr(""), mask_char |-> JAbsent, hash_type |-> JAbsent]}

RawConfig(s, e, p) ==
  [strategy |-> s, entities_to_anonymize |-> e,
   replacement_text |-> p.replacement_text, mask_char |-> p.mask_char,
   hash_type |-> p.hash_type]

DefaultParams == [replacement_text |-> JAbsent, mask_char |-> JAbsent, hash_type |-> JAbsent]

BodyConfigs ==
  {JAbsent, JBad}
  \cup {JObj(RawConfig(s, e, p)) :
          s \in {JAbsent} \cup {JStr(x) : x \in AnonymizationStrategy},
          e \in RequestedEntities, p \in StrategyParams}
  \cup {JObj(RawConfig(JStr("shred"), JAbsent, DefaultParams)),
        JObj(RawConfig(JStr("mask"), JArr(<<"PERSON", "NRP">>), DefaultParams))}

Bodies == [text : BodyTexts, language : BodyLanguages, config : BodyConfigs]

\* What AnalyzerEngine.analyze may return: RecognizerResult values, among
\* them overlapping spans, a type outside EntityType and a span that ends
\* beyond the text (as the mocked results of the tests do).
RecognizerResult(t, s, e, sc) == [entity_type |-> t, start |-> s, end |-> e, score |-> sc]

RecognizerResults ==
  {RecognizerResult("PERSON", 0, 1, 85),
   RecognizerResult("PERSON", 0, 2, 60),
   RecognizerResult("EMAIL_ADDRESS", 1, 2, 95),
   RecognizerResult("NRP", 0, 1, 85),
   RecognizerResult("EMAIL_ADDRESS", 1, MAX_TEXT_LENGTH + 2, 95)}

DetectorOutputs == SeqsUpTo(RecognizerResults, MaxEntities)

\* What AnonymizerEngine.anonymize may return as the rewritten text.
RedactorTexts ==
  {<<>>, <<"#">>, [i \in 1..(MAX_TEXT_LENGTH + 2) |-> "x"]}

\* Exceptions a collaborator call may raise.
PyException(t, m) == [type |-> t, msg |-> m]
CollaboratorExceptions ==
  {PyException("ValueError", "Test error"),
   PyException("RuntimeError", "Unexpected error")}

\* ------------------------------------------------------ handler pieces
\* text[start:end] as Python slices a str: negative indices count from the
\* end, both are clamped to the text, and an empty range gives "".
SliceIndex(i, n) ==
  IF i < 0 THEN (IF i + n < 0 THEN 0 ELSE i + n)
  ELSE (IF i > n THEN n ELSE i)

PySlice(s, start, end) ==
  LET lo == SliceIndex(start, Len(s))
      hi == SliceIndex(end, Len(s))
  IN IF lo >= hi THEN <<>> ELSE SubSeq(s, lo + 1, hi)

\* Mutant of EnginesMissing: "and" in place of "or".
EnginesMissing_Both(analyzer, anonymizer) == analyzer = "None" /\ anonymizer = "None"

\* The handler's test for available engines: not analyzer_engine or not
\* anonymizer_engine.
EnginesMissing(analyzer, anonymizer) == analyzer = "None" \/ anonymizer = "None"

\* Mutant of FilterRequested: "is not None" in place of truthiness, so an
\* empty list filters too.
FilterRequested_NotNone(config) ==
  config.some /\ config.val.entities_to_anonymize.some

\* request.config and request.config.entities_to_anonymize: a model
\* instance is truthy, None and the empty list are not.
FilterRequested(config) ==
  /\ config.some
  /\ config.val.entities_to_anonymize.some
  /\ Len(config.val.entities_to_anonymize.val) > 0

\* Mutant of SelectByType: a result equal to a later one is dropped.
RECURSIVE SelectByType_Dedup(_, _)
SelectByType_Dedup(results, types) ==
  IF results = <<>> THEN <<>>
  ELSE IF Head(results).entity_type \in Range(types)
          /\ Head(results) \notin Range(Tail(results))
    THEN <<Head(results)>> \o SelectByType_Dedup(Tail(results), types)
  ELSE SelectByType_Dedup(Tail(results), types)

\* [result for result in analyzer_results if result.entity_type in types]
RECURSIVE SelectByType(_, _)
SelectByType(results, types) ==
  IF results = <<>> THEN <<>>
  ELSE IF Head(results).entity_type \in Range(types)
    THEN <<Head(results)>> \o SelectByType(Tail(results), types)
  ELSE SelectByType(Tail(results), types)

\* Mutant of FilterEntities: the filter is never applied.
FilterEntities_Never(results, config) == results

\* The entity filter of the handler.
FilterEntities(results, config) ==
  IF FilterRequested(config)
    THEN SelectByType(results, config.val.entities_to_anonymize.val)
  ELSE results

\* OperatorConfig(operator_name, params); params is a record of the
\* parameters given, the empty record when there are none.
NoParams == [k \in {} |-> 0]
OperatorConfig(name, params) == [operator_name |-> name, params |-> params]

\* request.config.replacement_text or "<ANONYMIZED>"
ReplacementValue(replacement_text) ==
  IF replacement_text.some /\ replacement_text.val # "" THEN replacement_text.val
  ELSE "<ANONYMIZED>"

\* The dict operators of the handler, as a set of <<key, value>> pairs.
ResolveOperators(config) ==
  IF ~config.some THEN {}
  ELSE IF config.val.strategy = "replace"
    THEN {<<"DEFAULT", OperatorConfig("replace",
              [new_value |-> ReplacementValue(config.val.replacement_text)])>>}
  ELSE IF config.val.strategy = "redact"
    THEN {<<"DEFAULT", OperatorConfig("redact", NoParams)>>}
  ELSE IF config.val.strategy = "mask"
    THEN {<<"DEFAULT", OperatorConfig("mask",
              [masking_char |-> config.val.mask_char, chars_to_mask |-> -1])>>}
  ELSE IF config.val.strategy = "hash"
    THEN {<<"DEFAULT", OperatorConfig("hash", [hash_type |-> config.val.hash_type])>>}
  ELSE {}

\* Mutant of OperatorsArgument: the dict is passed even when it is empty.
OperatorsArgument_Always(operators) == Some(operators)

\* operators if operators else None
OperatorsArgument(operators) == IF operators # {} THEN Some(operators) ELSE None

\* The keyword arguments of the two collaborator calls.
AnalyzeCall(request) == [text |-> request.text, language |-> request.language]

AnonymizeCall(request, results) ==
  [text |-> request.text,
   analyzer_results |-> results,
   operators |-> OperatorsArgument(ResolveOperators(request.config))]

\* One DetectedEntity of the response.
DetectedEntity(result, text) ==
  [entity_type |-> result.entity_type, start |-> result.start,
   end |-> result.end, score |-> result.score,
   text |-> PySlice(text, result.start, result.end)]

\* Mutant of AnonymizeResponse: anonymized_length is taken from the request.
AnonymizeResponse_LengthOfRequest(request, analyzer_results, anonymized_text, processing_time) ==
  [status |-> HTTP_200_OK,
   anonymized_text |-> anonymized_text,
   processing_time_ms |-> processing_time,
   detected_entities |->
     [i \in DOMAIN analyzer_results |-> DetectedEntity(analyzer_results[i], request.text)],
   original_length |-> Len(request.text),
   anonymized_length |-> Len(request.text)]

\* Mutant of AnonymizeResponse: the entity text is sliced from the output.
AnonymizeResponse_SlicesOutput(request, analyzer_results, anonymized_text, processing_time) ==
  [status |-> HTTP_200_OK,
   anonymized_text |-> anonymized_text,
   processing_time_ms |-> processing_time,
   detected_entities |->
     [i \in DOMAIN analyzer_results |-> DetectedEntity(analyzer_results[i], anonymized_text)],
   original_length |-> Len(request.text),
   anonymized_length |-> Len(anonymized_text)]

\* The AnonymizeResponse of a successful call: analyzer_results is the
\* handler's variable of that name (the filtered list), anonymized_text the
\* text of the Redactor's result.
AnonymizeResponse(request, analyzer_results, anonymized_text, processing_time) ==
  [status |-> HTTP_200_OK,
   anonymized_text |-> anonymized_text,
   processing_time_ms |-> processing_time,
   detected_entities |->
     [i \in DOMAIN analyzer_results |-> DetectedEntity(analyzer_results[i], request.text)],
   original_length |-> Len(request.text),
   anonymized_length |-> Len(anonymized_text)]

\* (time.time() - start_time) * 1000
ProcessingTime(start, now) == (now - start) * 1000

\* HTTPException(status_code=..., detail=...), the exception.
HTTPException(status_code, detail) ==
  [type |-> "HTTPException", status_code |-> status_code, detail |-> detail]

\* ErrorResponse(error=..., message=...).dict(), sent with a status.
ErrorResponse(status_code, error, message) ==
  [status |-> status_code, error |-> error, message |-> message]

\* str(e) of an exception caught by the handler, as tokens.
ExceptionText(e) ==
  IF e.type = "HTTPException" THEN <<ToString(e.status_code), ": ", e.detail>> ELSE <<e.msg>>

\* Mutant of HandlerExcept: the detail does not carry the cause.
HandlerExcept_NoCause(e) ==
  HTTPException(HTTP_500_INTERNAL_SERVER_ERROR, <<"Anonymization failed">>)

\* Mutant of HandlerExcept: the exception is raised again as it is.
HandlerExcept_Reraise(e) == e

\* The handler's except clause: every Exception raised in the try block,
\* an HTTPException included, is replaced by an HTTPException with 500.
HandlerExcept(e) ==
  HTTPException(HTTP_500_INTERNAL_SERVER_ERROR,
                <<"Anonymization failed: ">> \o ExceptionText(e))

\* The response the application gives for an exception that leaves a route:
\* FastAPI's own handler for an HTTPException, then the handlers registered
\* for ValueError, RuntimeError and Exception.
ExceptionResponse(e) ==
  IF e.type = "HTTPException" THEN [status |-> e.status_code, detail |-> e.detail]
  ELSE IF e.type = "ValueError"
    THEN ErrorResponse(HTTP_400_BAD_REQUEST, "ValidationError", <<e.msg>>)
  ELSE IF e.type = "RuntimeError"
    THEN ErrorResponse(HTTP_500_INTERNAL_SERVER_ERROR, "RuntimeError", <<e.msg>>)
  ELSE ErrorResponse(HTTP_500_INTERNAL_SERVER_ERROR, "InternalServerError",
                     <<"An unexpected error occurred">>)

\* The HTTPException raised when an engine is missing.
EnginesNotInitialized ==
  HTTPException(HTTP_503_SERVICE_UNAVAILABLE, "Anonymization engines not initialized")

\* Calling a method on None.
AttributeError(method) ==
  PyException("AttributeError", "'NoneType' object has no attribute '" \o method \o "'")

\* "healthy" if engine is not None else "unhealthy"
DependencyStatus(engine) == IF engine # "None" THEN "healthy" ELSE "unhealthy"

\* Mutant of OverallStatus: one healthy dependency is enough.
OverallStatus_Either(analyzer_status, anonymizer_status) ==
  IF analyzer_status = "healthy" \/ anonymizer_status = "healthy"
    THEN "healthy" ELSE "unhealthy"

\* The status field of the health response.
OverallStatus(analyzer_status, anonymizer_status) ==
  IF analyzer_status = "healthy" /\ anonymizer_status = "healthy"
    THEN "healthy" ELSE "unhealthy"

\* Mutant of HealthResponse: both dependencies report the analyzer's status.
HealthResponse_AnalyzerTwice(analyzer, anonymizer) ==
  [status_code |-> HTTP_200_OK,
   status |-> OverallStatus(DependencyStatus(analyzer), DependencyStatus(anonymizer)),
   version |-> "2.0.0",
   dependencies |-> [presidio_analyzer |-> DependencyStatus(analyzer),
                     presidio_anonymizer |-> DependencyStatus(analyzer)]]

\* The HealthResponse of health_check (its timestamp left out).
HealthResponse(analyzer, anonymizer) ==
  [status_code |-> HTTP_200_OK,
   status |-> OverallStatus(DependencyStatus(analyzer), DependencyStatus(anonymizer)),
   version |-> "2.0.0",
   dependencies |-> [presidio_analyzer |-> DependencyStatus(analyzer),
                     presidio_anonymizer |-> DependencyStatus(anonymizer)]]

\* The application section of the metrics response (system and process
\* figures and the uptime left out).
MetricsResponse(analyzer, anonymizer) ==
  [status_code |-> HTTP_200_OK,
   application |-> [analyzer_status |-> DependencyStatus(analyzer),
                    anonymizer_status |-> DependencyStatus(anonymizer)]]

\* The answer of get_metrics when psutil cannot be imported or fails.
MetricsFailed ==
  [status_code |-> HTTP_500_INTERNAL_SERVER_ERROR, detail |-> "Failed to retrieve metrics"]

\* The response of get_info: the configuration and the enumerations.
InfoResponse ==
  [status_code |-> HTTP_200_OK,
   version |-> "2.0.0",
   configuration |-> [max_text_length |-> MAX_TEXT_LENGTH,
                      supported_languages |-> SUPPORTED_LANGUAGES,
                      default_language |-> DEFAULT_LANGUAGE],
   supported_entities |-> EntityType,
   supported_strategies |-> AnonymizationStrategy]

\* The 422 response of a rejected body.
RequestValidationError(errs) ==
  [status |-> HTTP_422_UNPROCESSABLE_ENTITY, detail |-> errs]

\* --------------------------------------------------------------- state
VARIABLES
  analyzer_engine,    \* the global analyzer_engine: "None" or "Ready"
  anonymizer_engine,  \* the global anonymizer_engine: "None" or "Ready"
  lifespan,           \* where the lifespan manager is
  running,            \* the request whose handler occupies the event loop, or 0
  pc,                 \* per request: where it is
  body,               \* per request: the JSON body received
  errors,             \* per request: the validation errors of the body
  request,            \* per request: the validated AnonymizeRequest
  analyze_calls,      \* per request: the arguments of each analyze call
  detector_output,    \* per request: what analyze returned
  analyzer_results,   \* per request: the handler's variable analyzer_results
  anonymize_calls,    \* per request: the arguments of each anonymize call
  raised,             \* per request: the exception raised inside the handler
  response,           \* per request: the HTTP response
  clock,              \* what time.time() returns now
  start_time,         \* per request: the handler's variable start_time
  analyze_elapsed,    \* per request: the time that passed inside analyze
  anonymized_result,  \* per request: what anonymize returned
  health,             \* the last response of GET /health
  metrics,            \* the last response of GET /metrics
  info                \* the last response of GET /info

engines == <<analyzer_engine, anonymizer_engine, lifespan>>
timing == <<start_time, analyze_elapsed>>
locals == <<pc, body, errors, request, analyze_calls, detector_output,
            analyzer_results, anonymize_calls, raised, response, timing,
            anonymized_result>>
probes == <<health, metrics, info>>
vars == <<analyzer_engine, anonymizer_engine, lifespan, running, pc, body,
          errors, request, analyze_calls, detector_output, analyzer_results,
          anonymize_calls, raised, response, clock, start_time,
          analyze_elapsed, anonymized_result, health, metrics, info>>

NoResponse == [status |-> 0]
NothingRaised == [by |-> "nothing"]
NotAsked == [status_code |-> 0]
\* The exception e, raised by the collaborator call named.
RaisedBy(call, e) == [by |-> call, exc |-> e]

Init ==
  /\ analyzer_engine = "None"
  /\ anonymizer_engine = "None"
  /\ lifespan = "not_started"
  /\ running = 0
  /\ pc = [r \in Reqs |-> "idle"]
  /\ body = [r \in Reqs |-> None]
  /\ errors = [r \in Reqs |-> {}]
  /\ request = [r \in Reqs |-> None]
  /\ analyze_calls = [r \in Reqs |-> <<>>]
  /\ detector_output = [r \in Reqs |-> <<>>]
  /\ analyzer_results = [r \in Reqs |-> <<>>]
  /\ anonymize_calls = [r \in Reqs |-> <<>>]
  /\ raised = [r \in Reqs |-> NothingRaised]
  /\ response = [r \in Reqs |-> NoResponse]
  /\ clock = 0
  /\ start_time = [r \in Reqs |-> 0]
  /\ analyze_elapsed = [r \in Reqs |-> 0]
  /\ anonymized_result = [r \in Reqs |-> None]
  /\ health = NotAsked
  /\ metrics = NotAsked
  /\ info = NotAsked

\* ------------------------------------------------------------ lifespan
\* analyzer_engine = AnalyzerEngine(): the constructor returns or raises.
LifespanCreateAnalyzer ==
  /\ lifespan = "not_started"
  /\ \/ analyzer_engine' = "Ready" /\ lifespan' = "analyzer_created"
     \/ analyzer_engine' = analyzer_engine /\ lifespan' = "startup_failed"
  /\ UNCHANGED <<anonymizer_engine, running, locals, probes, clock>>

\* anonymizer_engine = AnonymizerEngine(), then the yield that lets the
\* application serve; or the constructor raises and startup fails.
LifespanCreateAnonymizer ==
  /\ lifespan = "analyzer_created"
  /\ \/ anonymizer_engine' = "Ready" /\ lifespan' = "serving"
     \/ anonymizer_engine' = anonymizer_engine /\ lifespan' = "startup_failed"
  /\ UNCHANGED <<analyzer_engine, running, locals, probes, clock>>

\* Mutant of LifespanShutdown: the handles are cleared on the way out.
LifespanShutdown_ClearsHandles ==
  /\ lifespan = "serving"
  /\ lifespan' = "stopped"
  /\ analyzer_engine' = "None"
  /\ anonymizer_engine' = "None"
  /\ UNCHANGED <<running, locals, probes, clock>>

\* The application stops: the finally clause logs and leaves the handles.
LifespanShutdown ==
  /\ lifespan = "serving"
  /\ lifespan' = "stopped"
  /\ UNCHANGED <<analyzer_engine, anonymizer_engine, running, locals, probes, clock>>

\* ------------------------------------------- GET /health, /metrics, /info
\* The three handlers run to completion on the event loop; they read the
\* handles and write nothing.
HealthCheck ==
  /\ running = 0
  /\ health' = HealthResponse(analyzer_engine, anonymizer_engine)
  /\ UNCHANGED <<engines, running, locals, clock, metrics, info>>

GetMetrics ==
  /\ running = 0
  /\ \/ metrics' = MetricsResponse(analyzer_engine, anonymizer_engine)
     \/ metrics' = MetricsFailed
  /\ UNCHANGED <<engines, running, locals, clock, health, info>>

GetInfo ==
  /\ running = 0
  /\ info' = InfoResponse
  /\ UNCHANGED <<engines, running, locals, clock, health, metrics>>

\* ------------------------------------------------------ POST /anonymize
\* Ends the handler of r with a response.
Respond(r, resp) ==
  /\ response' = [response EXCEPT ![r] = resp]
  /\ pc' = [pc EXCEPT ![r] = "done"]
  /\ running' = 0

\* A body arrives and FastAPI validates it against AnonymizeRequest: a
\* body with errors is answered 422, any other waits for the handler.
ReceiveRequest(r, bodies) ==
  /\ pc[r] = "idle"
  /\ running = 0
  /\ \E b \in bodies :
       LET errs == ValidationErrors(b) IN
       /\ body' = [body EXCEPT ![r] = Some(b)]
       /\ errors' = [errors EXCEPT ![r] = errs]
       /\ IF RequestRejected(errs)
            THEN /\ response' = [response EXCEPT ![r] = RequestValidationError(errs)]
                 /\ pc' = [pc EXCEPT ![r] = "done"]
                 /\ UNCHANGED request
            ELSE /\ request' = [request EXCEPT ![r] = Some(AnonymizeRequest(b))]
                 /\ pc' = [pc EXCEPT ![r] = "validated"]
                 /\ UNCHANGED response
  /\ UNCHANGED <<engines, probes, running, analyze_calls, detector_output,
                 analyzer_results, anonymize_calls, raised, clock, timing,
                 anonymized_result>>

\* The handler starts: it checks the engines and calls
\* analyzer_engine.analyze, which blocks the event loop until it returns.
EnterHandler(r) ==
  /\ pc[r] = "validated"
  /\ running = 0
  /\ start_time' = [start_time EXCEPT ![r] = clock]
  /\ IF EnginesMissing(analyzer_engine, anonymizer_engine)
       THEN /\ Respond(r, ExceptionResponse(HandlerExcept(EnginesNotInitialized)))
            /\ UNCHANGED analyze_calls
     ELSE IF analyzer_engine = "None"
       THEN /\ Respond(r, ExceptionResponse(HandlerExcept(AttributeError("analyze"))))
            /\ UNCHANGED analyze_calls
     ELSE /\ analyze_calls' =
               [analyze_calls EXCEPT ![r] = Append(@, AnalyzeCall(request[r].val))]
          /\ pc' = [pc EXCEPT ![r] = "analyzing"]
          /\ running' = r
          /\ UNCHANGED response
  /\ UNCHANGED <<engines, probes, body, errors, request, detector_output,
                 analyzer_results, anonymize_calls, raised, clock,
                 analyze_elapsed, anonymized_result>>

\* Mutant of AnalyzeReturns: the Redactor is handed the Detector's list as
\* returned, the response reports the filtered one.
AnalyzeReturns_PassesRaw(r, outputs) ==
  /\ pc[r] = "analyzing"
  /\ \E out \in outputs :
       /\ detector_output' = [detector_output EXCEPT ![r] = out]
       /\ analyzer_results' =
            [analyzer_results EXCEPT ![r] = FilterEntities(out, request[r].val.config)]
       /\ anonymize_calls' =
            [anonymize_calls EXCEPT ![r] = Append(@, AnonymizeCall(request[r].val, out))]
       /\ pc' = [pc EXCEPT ![r] = "anonymizing"]
  /\ UNCHANGED <<engines, probes, body, errors, request, analyze_calls, raised,
                 clock, timing, anonymized_result, response, running>>

\* Mutant of AnalyzeReturns: the hash descriptor carries a value of its own
\* for every call.
AnalyzeReturns_Salted(r, outputs) ==
  /\ pc[r] = "analyzing"
  /\ \E out \in outputs :
       LET filtered == FilterEntities(out, request[r].val.config)
           call == AnonymizeCall(request[r].val, filtered)
       IN /\ detector_output' = [detector_output EXCEPT ![r] = out]
          /\ analyzer_results' = [analyzer_results EXCEPT ![r] = filtered]
          /\ anonymize_calls' =
               [anonymize_calls EXCEPT ![r] = Append(@,
                  [call EXCEPT !.operators =
                     Some({<<"DEFAULT", OperatorConfig("hash", [salt |-> r])>>})])]
          /\ pc' = [pc EXCEPT ![r] = "anonymizing"]
  /\ UNCHANGED <<engines, probes, body, errors, request, analyze_calls, raised,
                 clock, timing, anonymized_result, response, running>>

\* Mutant of AnalyzeReturns: with nothing to anonymize the handler answers
\* at once with the text as sent and does not call the Redactor.
AnalyzeReturns_EarlyReturn(r, outputs) ==
  /\ pc[r] = "analyzing"
  /\ \E out \in outputs :
       LET filtered == FilterEntities(out, request[r].val.config) IN
       /\ detector_output' = [detector_output EXCEPT ![r] = out]
       /\ analyzer_results' = [analyzer_results EXCEPT ![r] = filtered]
       /\ IF filtered = <<>>
            THEN /\ Respond(r, AnonymizeResponse(request[r].val, filtered,
                                                 request[r].val.text,
                                                 ProcessingTime(start_time[r], clock)))
                 /\ UNCHANGED anonymize_calls
            ELSE /\ anonymize_calls' =
                      [anonymize_calls EXCEPT
                         ![r] = Append(@, AnonymizeCall(request[r].val, filtered))]
                 /\ pc' = [pc EXCEPT ![r] = "anonymizing"]
                 /\ UNCHANGED <<response, running>>
  /\ UNCHANGED <<engines, probes, body, errors, request, analyze_calls, raised,
                 clock, timing, anonymized_result>>

\* analyze returns: the handler filters the entities, resolves the
\* operators and calls anonymizer_engine.anonymize.
AnalyzeReturns(r, outputs) ==
  /\ pc[r] = "analyzing"
  /\ \E out \in outputs :
       LET filtered == FilterEntities(out, request[r].val.config) IN
       /\ detector_output' = [detector_output EXCEPT ![r] = out]
       /\ analyzer_results' = [analyzer_results EXCEPT ![r] = filtered]
       /\ IF anonymizer_engine = "None"
            THEN /\ Respond(r, ExceptionResponse(HandlerExcept(AttributeError("anonymize"))))
                 /\ UNCHANGED anonymize_calls
            ELSE /\ anonymize_calls' =
                      [anonymize_calls EXCEPT
                         ![r] = Append(@, AnonymizeCall(request[r].val, filtered))]
                 /\ pc' = [pc EXCEPT ![r] = "anonymizing"]
                 /\ UNCHANGED <<response, running>>
  /\ UNCHANGED <<engines, probes, body, errors, request, analyze_calls, raised,
                 clock, timing, anonymized_result>>

\* Mutant of AnalyzeRaises: the failed call is made once more.
AnalyzeRaises_Retries(r, exceptions) ==
  /\ pc[r] = "analyzing"
  /\ \E e \in exceptions :
       /\ raised' = [raised EXCEPT ![r] = RaisedBy("analyze", e)]
       /\ IF Len(analyze_calls[r]) < 2
            THEN /\ analyze_calls' =
                      [analyze_calls EXCEPT ![r] = Append(@, AnalyzeCall(request[r].val))]
                 /\ UNCHANGED <<pc, response, running>>
            ELSE /\ Respond(r, ExceptionResponse(HandlerExcept(e)))
                 /\ UNCHANGED analyze_calls
  /\ UNCHANGED <<engines, probes, body, errors, request, detector_output,
                 analyzer_results, anonymize_calls, clock, timing,
                 anonymized_result>>

\* analyze raises: the except clause answers 500.
AnalyzeRaises(r, exceptions) ==
  /\ pc[r] = "analyzing"
  /\ \E e \in exceptions :
       /\ raised' = [raised EXCEPT ![r] = RaisedBy("analyze", e)]
       /\ Respond(r, ExceptionResponse(HandlerExcept(e)))
  /\ UNCHANGED <<engines, probes, body, errors, request, analyze_calls,
                 detector_output, analyzer_results, anonymize_calls, clock,
                 timing, anonymized_result>>

\* Mutant of AnonymizeReturns: the response is built from a request kept
\* in one place for all handlers.
AnonymizeReturns_SharedRequest(r, texts) ==
  /\ pc[r] = "anonymizing"
  /\ \E out \in texts :
       /\ anonymized_result' = [anonymized_result EXCEPT ![r] = Some([text |-> Some(out)])]
       /\ Respond(r, AnonymizeResponse(request[IF request[1].some THEN 1 ELSE r].val,
                                       analyzer_results[r], out,
                                       ProcessingTime(start_time[r], clock)))
  /\ UNCHANGED <<engines, probes, body, errors, request, analyze_calls,
                 detector_output, analyzer_results, anonymize_calls, raised,
                 clock, timing>>

\* anonymize returns: the handler builds the AnonymizeResponse.
AnonymizeReturns(r, texts) ==
  /\ pc[r] = "anonymizing"
  /\ \E out \in texts :
       /\ anonymized_result' = [anonymized_result EXCEPT ![r] = Some([text |-> Some(out)])]
       /\ Respond(r, AnonymizeResponse(request[r].val, analyzer_results[r], out,
                                       ProcessingTime(start_time[r], clock)))
  /\ UNCHANGED <<engines, probes, body, errors, request, analyze_calls,
                 detector_output, analyzer_results, anonymize_calls, raised,
                 clock, timing>>

\* Mutant of AnonymizeRaises: the failure is answered with the text as sent.
AnonymizeRaises_ReturnsOriginal(r, exceptions) ==
  /\ pc[r] = "anonymizing"
  /\ \E e \in exceptions :
       /\ raised' = [raised EXCEPT ![r] = RaisedBy("anonymize", e)]
       /\ Respond(r, AnonymizeResponse(request[r].val, analyzer_results[r],
                                       request[r].val.text,
                                       ProcessingTime(start_time[r], clock)))
  /\ UNCHANGED <<engines, probes, body, errors, request, analyze_calls,
                 detector_output, analyzer_results, anonymize_calls, clock,
                 timing, anonymized_result>>

\* anonymize raises: the except clause answers 500.
AnonymizeRaises(r, exceptions) ==
  /\ pc[r] = "anonymizing"
  /\ \E e \in exceptions :
       /\ raised' = [raised EXCEPT ![r] = RaisedBy("anonymize", e)]
       /\ Respond(r, ExceptionResponse(HandlerExcept(e)))
  /\ UNCHANGED <<engines, probes, body, errors, request, analyze_calls,
                 detector_output, analyzer_results, anonymize_calls, clock,
                 timing, anonymized_result>>

\* anonymize returns a result whose text is None: len(anonymized_result.text)
\* raises a TypeError inside the try block and the except clause answers 500.
NoLenOfNone == PyException("TypeError", "object of type 'NoneType' has no len()")

AnonymizeReturnsNoText(r) ==
  /\ pc[r] = "anonymizing"
  /\ anonymized_result' = [anonymized_result EXCEPT ![r] = Some([text |-> None])]
  /\ raised' = [raised EXCEPT ![r] = RaisedBy("response", NoLenOfNone)]
  /\ Respond(r, ExceptionResponse(HandlerExcept(NoLenOfNone)))
  /\ UNCHANGED <<engines, probes, body, errors, request, analyze_calls,
                 detector_output, analyzer_results, anonymize_calls, clock,
                 timing>>

\* ---------------------------------------------------------------- time
\* Time passes: time.time() grows, and so does the time spent by every
\* request that is inside analyze.
TimePasses ==
  /\ clock < MaxClock
  /\ \A r \in Reqs : analyze_elapsed[r] < MaxClock
  /\ clock' = clock + 1
  /\ analyze_elapsed' =
       [r \in Reqs |-> IF pc[r] = "analyzing" THEN analyze_elapsed[r] + 1
                       ELSE analyze_elapsed[r]]
  /\ UNCHANGED <<engines, probes, running, pc, body, errors, request,
                 analyze_calls, detector_output, analyzer_results,
                 anonymize_calls, raised, response, start_time,
                 anonymized_result>>

\* The system clock is set back (time.time() is not monotonic).
ClockSetBack ==
  /\ clock > 0
  /\ clock' = clock - 1
  /\ UNCHANGED <<engines, probes, running, locals>>

\* ------------------------------------------------------- specification
Next ==
  \/ LifespanCreateAnalyzer
  \/ LifespanCreateAnonymizer
  \/ \E r \in SeqReqs : ReceiveRequest(r, Bodies)
  \/ \E r \in SeqReqs : EnterHandler(r)
  \/ \E r \in SeqReqs : AnalyzeReturns(r, DetectorOutputs)
  \/ \E r \in SeqReqs : AnalyzeRaises(r, CollaboratorExceptions)
  \/ \E r \in SeqReqs : AnonymizeReturns(r, RedactorTexts)
  \/ \E r \in SeqReqs : AnonymizeRaises(r, CollaboratorExceptions)
  \/ \E r \in SeqReqs : AnonymizeReturnsNoText(r)

Spec == Init /\ [][Next]_vars

\* The whole service: the lifespan from start to shutdown and the four
\* routes, POST /anonymize with a small workload.
OpsBodies ==
  {[text |-> JStr(<<"a", "b">>), language |-> JAbsent, config |-> JAbsent],
   [text |-> JStr(<<"b">>), language |-> JStr("it"),
    config |-> JObj(RawConfig(JStr("mask"), JArr(<<"PERSON">>), DefaultParams))],
   [text |-> JStr(<<>>), language |-> JAbsent, config |-> JAbsent]}

OpsDetectorOutputs == SeqsUpTo(RecognizerResults, 1)

NextOps ==
  \/ LifespanCreateAnalyzer
  \/ LifespanCreateAnonymizer
  \/ LifespanShutdown
  \/ HealthCheck
  \/ GetMetrics
  \/ GetInfo
  \/ \E r \in SeqReqs : ReceiveRequest(r, OpsBodies)
  \/ \E r \in SeqReqs : EnterHandler(r)
  \/ \E r \in SeqReqs : AnalyzeReturns(r, OpsDetectorOutputs)
  \/ \E r \in SeqReqs : AnalyzeRaises(r, CollaboratorExceptions)
  \/ \E r \in SeqReqs : AnonymizeReturns(r, RedactorTexts)
  \/ \E r \in SeqReqs : AnonymizeRaises(r, CollaboratorExceptions)

SpecOps == Init /\ [][NextOps]_vars

\* One request under a clock that runs and may be set back.
ClockBodies ==
  {[text |-> JStr(<<"a">>), language |-> JAbsent, config |-> JAbsent],
   [text |-> JStr(<<"a", "b">>), language |-> JStr("en"),
    config |-> JObj(RawConfig(JStr("redact"), JAbsent, DefaultParams))]}

NextClock ==
  \/ LifespanCreateAnalyzer
  \/ LifespanCreateAnonymizer
  \/ TimePasses
  \/ ClockSetBack
  \/ \E r \in SeqReqs : ReceiveRequest(r, ClockBodies)
  \/ \E r \in SeqReqs : EnterHandler(r)
  \/ \E r \in SeqReqs : AnalyzeReturns(r, OpsDetectorOutputs)
  \/ \E r \in SeqReqs : AnalyzeRaises(r, CollaboratorExceptions)
  \/ \E r \in SeqReqs : AnonymizeReturns(r, RedactorTexts)
  \/ \E r \in SeqReqs : AnonymizeRaises(r, CollaboratorExceptions)

SpecClock == Init /\ [][NextClock]_vars

\* Several requests at once: every handler runs on the one event loop, and
\* GET /health is asked in between.
ConcBodies ==
  {[text |-> JStr(<<"a", "b">>), language |-> JAbsent,
    config |-> JObj(RawConfig(JStr("hash"), JAbsent, DefaultParams))],
   [text |-> JStr(<<"b">>), language |-> JStr("it"),
    config |-> JObj(RawConfig(JStr("mask"), JArr(<<"PERSON">>), DefaultParams))]}

ConcDetectorOutputs ==
  {<<>>,
   <<RecognizerResult("EMAIL_ADDRESS", 1, 2, 95), RecognizerResult("PERSON", 0, 1, 85)>>}

ConcRedactorTexts == {<<>>, <<"#">>}

ConcExceptions == {PyException("RuntimeError", "Unexpected error")}

NextConc ==
  \/ LifespanCreateAnalyzer
  \/ LifespanCreateAnonymizer
  \/ HealthCheck
  \/ \E r \in Reqs : ReceiveRequest(r, ConcBodies)
  \/ \E r \in Reqs : EnterHandler(r)
  \/ \E r \in Reqs : AnalyzeReturns(r, ConcDetectorOutputs)
  \/ \E r \in Reqs : AnalyzeRaises(r, ConcExceptions)
  \/ \E r \in Reqs : AnonymizeReturns(r, ConcRedactorTexts)
  \/ \E r \in Reqs : AnonymizeRaises(r, ConcExceptions)

\* The event loop runs a handler that is ready, and a collaborator call
\* that was made returns or raises.
FairConc ==
  \A r \in Reqs :
    /\ WF_vars(EnterHandler(r))
    /\ WF_vars(AnalyzeReturns(r, ConcDetectorOutputs) \/ AnalyzeRaises(r, ConcExceptions))
    /\ WF_vars(AnonymizeReturns(r, ConcRedactorTexts) \/ AnonymizeRaises(r, ConcExceptions))

SpecConc == Init /\ [][NextConc]_vars /\ FairConc

\* -------------------------------------------------------------- claims
\* What the claims read of a request.
Received(r) == body[r].some
Answered(r) == pc[r] = "done"
Succeeded(r) == response[r].status = HTTP_200_OK
SentText(r) == body[r].val.text
SentLanguage(r) == body[r].val.language
SentConfig(r) == body[r].val.config
\* The entities_to_anonymize the body supplies, as a JSON value.
SentEntities(r) ==
  IF SentConfig(r).tag = "obj" THEN SentConfig(r).val.entities_to_anonymize ELSE JAbsent
IssuesAt(issues, loc) == {e \in issues : e.loc = loc}

\* C1: with an engine handle uninitialized, every POST /anonymize with a
\* valid body is answered 503 (and so differs by status from the 500 of a
\* failed analysis or redaction).
C1_UninitializedAnswers503 ==
  \A r \in Reqs :
    (Answered(r) /\ errors[r] = {}
       /\ (analyzer_engine = "None" \/ anonymizer_engine = "None"))
      => response[r].status = HTTP_503_SERVICE_UNAVAILABLE

\* C2: while at least one engine handle is uninitialized, no request has
\* been answered 200 and no request has called analyze or anonymize.
C2_NoProcessingWithoutEngines ==
  (analyzer_engine = "None" \/ anonymizer_engine = "None")
    => \A r \in Reqs :
         /\ ~Succeeded(r)
         /\ analyze_calls[r] = <<>>
         /\ anonymize_calls[r] = <<>>

\* C2 witness: a valid request was answered while exactly one handle was Ready.
C2_Witness ==
  /\ analyzer_engine = "Ready"
  /\ anonymizer_engine = "None"
  /\ \E r \in Reqs : Answered(r) /\ errors[r] = {}

\* C3: a text of length 0 or above MAX_TEXT_LENGTH is answered 422 with an
\* issue on text; a text of length 1..MAX_TEXT_LENGTH has no issue on text.
C3_TextLengthValidation ==
  \A r \in Reqs :
    (Received(r) /\ SentText(r).tag = "str") =>
      LET L == Len(SentText(r).val) IN
      /\ (L = 0 \/ L > MAX_TEXT_LENGTH) =>
           /\ response[r].status = HTTP_422_UNPROCESSABLE_ENTITY
           /\ IssuesAt(response[r].detail, "text") # {}
      /\ (1 <= L /\ L <= MAX_TEXT_LENGTH) => IssuesAt(errors[r], "text") = {}

\* C3 witness: a text of exactly MAX_TEXT_LENGTH characters was processed.
C3_Witness ==
  \E r \in Reqs :
    /\ Received(r) /\ SentText(r).tag = "str"
    /\ Len(SentText(r).val) = MAX_TEXT_LENGTH
    /\ Succeeded(r)

\* C4: a language outside SUPPORTED_LANGUAGES is answered 422 with a message
\* naming every supported language; a supported language raises no issue
\* whatever the text; an omitted language becomes DEFAULT_LANGUAGE.
C4_LanguageValidation ==
  \A r \in Reqs :
    Received(r) =>
      /\ (SentLanguage(r).tag = "str"
            /\ SentLanguage(r).val \notin Range(SUPPORTED_LANGUAGES)) =>
           /\ response[r].status = HTTP_422_UNPROCESSABLE_ENTITY
           /\ \E e \in IssuesAt(response[r].detail, "language") :
                Range(SUPPORTED_LANGUAGES) \subseteq Range(e.msg)
      /\ (SentLanguage(r).tag = "str"
            /\ SentLanguage(r).val \in Range(SUPPORTED_LANGUAGES)) =>
           IssuesAt(errors[r], "language") = {}
      /\ (SentLanguage(r).tag = "absent") =>
           /\ IssuesAt(errors[r], "language") = {}
           /\ request[r].some => request[r].val.language = DEFAULT_LANGUAGE
           /\ \A i \in DOMAIN analyze_calls[r] :
                analyze_calls[r][i].language = DEFAULT_LANGUAGE

\* C4 witness: a supported, non-default language passed beside a text that
\* failed validation.
C4_Witness ==
  \E r \in Reqs :
    /\ Received(r)
    /\ SentLanguage(r) = JStr("it")
    /\ IssuesAt(errors[r], "text") # {}
    /\ IssuesAt(errors[r], "language") = {}

\* C5: a request that fails validation never reaches analyze or anonymize,
\* and is answered 422, whatever the state of the engines.
C5_ValidationFailsFast ==
  \A r \in Reqs :
    errors[r] # {} =>
      /\ analyze_calls[r] = <<>>
      /\ anonymize_calls[r] = <<>>
      /\ response[r].status = HTTP_422_UNPROCESSABLE_ENTITY

\* C5 witness: an unsupported language was rejected with both engines Ready.
C5_Witness ==
  /\ analyzer_engine = "Ready"
  /\ anonymizer_engine = "Ready"
  /\ \E r \in Reqs :
       /\ Answered(r)
       /\ IssuesAt(errors[r], "language") # {}
       /\ IssuesAt(errors[r], "text") = {}

\* C6: in a 200 response original_length is the length of the text sent and
\* anonymized_length the length of the anonymized_text of that response.
C6_LengthMetrics ==
  \A r \in Reqs :
    Succeeded(r) =>
      /\ response[r].original_length = Len(SentText(r).val)
      /\ response[r].anonymized_length = Len(response[r].anonymized_text)

\* C6 witness: a 200 response whose anonymized text is longer than the text sent.
C6_Witness ==
  \E r \in Reqs :
    Succeeded(r) /\ Len(response[r].anonymized_text) > Len(SentText(r).val)

\* C7 as stated: whenever entities_to_anonymize is supplied, the empty list
\* included, every detected entity has one of its types.
C7_SuppliedFilterBoundsTypes ==
  \A r \in Reqs :
    (Succeeded(r) /\ SentEntities(r).tag = "arr") =>
      \A i \in DOMAIN response[r].detected_entities :
        response[r].detected_entities[i].entity_type \in Range(SentEntities(r).val)

\* C7 amended: whenever a non-empty entities_to_anonymize is supplied, every
\* detected entity has one of its types.
C7_NonEmptyFilterBoundsTypes ==
  \A r \in Reqs :
    (Succeeded(r) /\ SentEntities(r).tag = "arr" /\ Len(SentEntities(r).val) > 0) =>
      \A i \in DOMAIN response[r].detected_entities :
        response[r].detected_entities[i].entity_type \in Range(SentEntities(r).val)

\* C7 witness: a non-empty filter removed a detected entity and kept another.
C7_Witness ==
  \E r \in Reqs :
    /\ Succeeded(r)
    /\ SentEntities(r) = JArr(<<"PERSON">>)
    /\ Len(detector_output[r]) = 2
    /\ Len(response[r].detected_entities) = 1

\* The entity as the Detector gave it and as the response reports it.
SameSpan(entity, result) ==
  /\ entity.entity_type = result.entity_type
  /\ entity.start = result.start
  /\ entity.end = result.end
  /\ entity.score = result.score

\* C8: with config absent, or entities_to_anonymize unset or empty, the
\* detected entities are the Detector's results, one for one and in order.
C8_NoFilterIsIdentity ==
  \A r \in Reqs :
    (Succeeded(r)
       /\ (SentEntities(r).tag = "absent" \/ SentEntities(r) = JArr(<<>>))) =>
      /\ Len(response[r].detected_entities) = Len(detector_output[r])
      /\ \A i \in DOMAIN detector_output[r] :
           SameSpan(response[r].detected_entities[i], detector_output[r][i])

\* C8 witness: an empty entities_to_anonymize and two detected entities.
C8_Witness ==
  \E r \in Reqs :
    /\ Succeeded(r)
    /\ SentEntities(r) = JArr(<<>>)
    /\ Len(response[r].detected_entities) = 2
    /\ response[r].detected_entities[1].entity_type = "PERSON"
    /\ response[r].detected_entities[2].entity_type = "EMAIL_ADDRESS"

\* The positions of the results whose type is requested.
KeptPositions(results, types) ==
  {i \in DOMAIN results : results[i].entity_type \in Range(types)}

\* C9: with a non-empty entities_to_anonymize the list handed to the Redactor
\* is the Detector's list restricted to the requested types: the k-th kept
\* position gives the k-th entry, so order and duplicates are kept.
C9_FilterIsStableSubsequence ==
  \A r \in Reqs :
    (anonymize_calls[r] # <<>> /\ SentEntities(r).tag = "arr"
       /\ Len(SentEntities(r).val) > 0) =>
      LET raw == detector_output[r]
          kept == KeptPositions(raw, SentEntities(r).val)
          filtered == anonymize_calls[r][1].analyzer_results
      IN /\ Len(filtered) = Cardinality(kept)
         /\ \A i \in kept :
              filtered[Cardinality({j \in kept : j <= i})] = raw[i]

\* C9 witness: the Detector reported the same span twice and the filter kept both.
C9_Witness ==
  \E r \in Reqs :
    /\ anonymize_calls[r] # <<>>
    /\ SentEntities(r) = JArr(<<"PERSON">>)
    /\ Len(anonymize_calls[r][1].analyzer_results) = 2
    /\ anonymize_calls[r][1].analyzer_results[1]
         = anonymize_calls[r][1].analyzer_results[2]

\* C10: in a 200 response every detected entity carries the slice
\* [start:end] of the text sent, and the list has one entry for each entity
\* handed to the Redactor (the filtered list), in the same order.
C10_EntityTextFromRequest ==
  \A r \in Reqs :
    Succeeded(r) =>
      LET filtered == anonymize_calls[r][1].analyzer_results
          detected == response[r].detected_entities
      IN /\ Len(detected) = Len(filtered)
         /\ \A i \in DOMAIN detected :
              /\ SameSpan(detected[i], filtered[i])
              /\ detected[i].text
                   = PySlice(SentText(r).val, detected[i].start, detected[i].end)

\* C10 witness: the filter shortened the list, and the entity reported has a
\* text that the anonymized output does not have at that span.
C10_Witness ==
  \E r \in Reqs :
    /\ Succeeded(r)
    /\ Len(response[r].detected_entities) = 1
    /\ Len(detector_output[r]) = 2
    /\ response[r].detected_entities[1].text # <<>>
    /\ response[r].detected_entities[1].text
         # PySlice(response[r].anonymized_text,
                   response[r].detected_entities[1].start,
                   response[r].detected_entities[1].end)

\* C11: every detected entity of a 200 response lies within the text sent,
\* 0 <= start <= end <= len(text), whatever spans the Detector returned.
C11_SpansWithinText ==
  \A r \in Reqs :
    Succeeded(r) =>
      \A i \in DOMAIN response[r].detected_entities :
        LET e == response[r].detected_entities[i] IN
        /\ 0 <= e.start
        /\ e.start <= e.end
        /\ e.end <= Len(SentText(r).val)

\* The descriptor C12 gives for a strategy and its parameters.
C12_Descriptor(config) ==
  IF config.strategy = "replace"
    THEN [operator_name |-> "replace",
          params |-> [new_value |->
            IF config.replacement_text.some /\ config.replacement_text.val # ""
              THEN config.replacement_text.val ELSE "<ANONYMIZED>"]]
  ELSE IF config.strategy = "redact"
    THEN [operator_name |-> "redact", params |-> <<>>]
  ELSE IF config.strategy = "mask"
    THEN [operator_name |-> "mask",
          params |-> [masking_char |-> config.mask_char, chars_to_mask |-> -1]]
  ELSE [operator_name |-> "hash", params |-> [hash_type |-> config.hash_type]]

\* C12: for a present config the Redactor receives an operator map with
\* exactly one key, the default target, and for replace, redact, mask and
\* hash its descriptor is the one the strategy and its parameters give
\* (the whole span is written chars_to_mask = -1).
C12_OneDefaultOperator ==
  \A r \in Reqs :
    (anonymize_calls[r] # <<>> /\ SentConfig(r).tag = "obj") =>
      LET config == request[r].val.config.val
          operators == anonymize_calls[r][1].operators
      IN /\ operators.some
         /\ Cardinality(operators.val) = 1
         /\ \A kv \in operators.val :
              /\ kv[1] = "DEFAULT"
              /\ config.strategy \in {"replace", "redact", "mask", "hash"}
                   => kv[2] = C12_Descriptor(config)

\* C13: without a config the Redactor is called with operators None, and an
\* operator map is passed only with a config.
C13_NoConfigNoOperators ==
  \A r \in Reqs :
    \A i \in DOMAIN anonymize_calls[r] :
      /\ SentConfig(r).tag = "absent" => anonymize_calls[r][i].operators = None
      /\ anonymize_calls[r][i].operators.some => SentConfig(r).tag = "obj"

\* C13 witness: a request without config was anonymized and answered 200.
C13_Witness ==
  \E r \in Reqs :
    /\ Succeeded(r)
    /\ SentConfig(r).tag = "absent"
    /\ Len(anonymize_calls[r]) = 1

C16_RedactionFailureIs500 ==
  \A r \in Reqs :
    raised[r].by = "anonymize" =>
      /\ response[r].status = HTTP_500_INTERNAL_SERVER_ERROR
      /\ DOMAIN response[r] = {"status", "detail"}
      /\ response[r].detail = <<"Anonymization failed: ", raised[r].exc.msg>>

\* C16 witness: analyze returned an entity, then anonymize raised.
C16_Witness ==
  \E r \in Reqs :
    /\ raised[r].by = "anonymize"
    /\ Len(analyze_calls[r]) = 1
    /\ Len(detector_output[r]) > 0
    /\ Answered(r)

\* C17: every error response of POST /anonymize to a valid body carries an
\* error kind and a message.
C17_ErrorKindAndMessage ==
  \A r \in Reqs :
    (Answered(r) /\ errors[r] = {} /\ ~Succeeded(r)) =>
      {"error", "message"} \subseteq DOMAIN response[r]

\* C18: GET /health answers 200; its status is "healthy" exactly when both
\* handles are Ready, and each dependency entry is "healthy" exactly when its
\* handle is Ready.
C18_HealthReflectsHandles ==
  [][HealthCheck =>
       /\ health'.status_code = HTTP_200_OK
       /\ (health'.status = "healthy")
            <=> (analyzer_engine = "Ready" /\ anonymizer_engine = "Ready")
       /\ health'.status \in {"healthy", "unhealthy"}
       /\ (health'.dependencies.presidio_analyzer = "healthy")
            <=> (analyzer_engine = "Ready")
       /\ (health'.dependencies.presidio_anonymizer = "healthy")
            <=> (anonymizer_engine = "Ready")
       /\ health'.dependencies.presidio_analyzer \in {"healthy", "unhealthy"}
       /\ health'.dependencies.presidio_anonymizer \in {"healthy", "unhealthy"}]_vars

\* C18 witness: /health answered with only the analyzer Ready.
C18_Witness ==
  /\ health.status_code = HTTP_200_OK
  /\ health.status = "unhealthy"
  /\ health.dependencies.presidio_analyzer = "healthy"
  /\ health.dependencies.presidio_anonymizer = "unhealthy"

\* C19: a handle never goes from Ready back to None, and a handle changes
\* only in a step of the lifespan's startup, which touches no request and no
\* route's response.
C19_HandlesSetOnceAtStartup ==
  [][/\ analyzer_engine = "Ready" => analyzer_engine' = "Ready"
     /\ anonymizer_engine = "Ready" => anonymizer_engine' = "Ready"
     /\ (analyzer_engine' # analyzer_engine \/ anonymizer_engine' # anonymizer_engine)
          => /\ lifespan \in {"not_started", "analyzer_created"}
             /\ lifespan' # lifespan
             /\ UNCHANGED <<running, locals, probes>>]_vars

\* C19 witness: after shutdown both handles are still Ready, a request was
\* answered 200 and the three other routes were asked.
C19_Witness ==
  /\ lifespan = "stopped"
  /\ analyzer_engine = "Ready"
  /\ anonymizer_engine = "Ready"
  /\ \E r \in Reqs : Succeeded(r)
  /\ health.status_code = HTTP_200_OK
  /\ metrics.status_code = HTTP_200_OK
  /\ info.status_code = HTTP_200_OK

\* C20: once startup has failed, /health has not reported "healthy" and no
\* POST /anonymize has been answered 200.
C20_FailedStartupNeverHealthy ==
  lifespan = "startup_failed" =>
    /\ health.status_code = HTTP_200_OK => health.status # "healthy"
    /\ \A r \in Reqs : ~Succeeded(r)

\* C20 witness: the analyzer was created, the anonymizer's constructor
\* raised, and afterwards /health and POST /anonymize were answered.
C20_Witness ==
  /\ lifespan = "startup_failed"
  /\ analyzer_engine = "Ready"
  /\ health.status_code = HTTP_200_OK
  /\ health.dependencies.presidio_analyzer = "healthy"
  /\ \E r \in Reqs : Answered(r) /\ errors[r] = {}

LocalsUnchanged(q) ==
  /\ pc'[q] = pc[q]
  /\ body'[q] = body[q]
  /\ errors'[q] = errors[q]
  /\ request'[q] = request[q]
  /\ analyze_calls'[q] = analyze_calls[q]
  /\ detector_output'[q] = detector_output[q]
  /\ analyzer_results'[q] = analyzer_results[q]
  /\ anonymize_calls'[q] = anonymize_calls[q]
  /\ raised'[q] = raised[q]
  /\ response'[q] = response[q]
  /\ start_time'[q] = start_time[q]
  /\ anonymized_result'[q] = anonymized_result[q]

\* C22, in every state: a request whose handler ran against Ready handles
\* with no collaborator failure is answered 200 from its own data.
C22_OwnResponse ==
  \A r \in Reqs :
    (Answered(r) /\ analyze_calls[r] # <<>> /\ raised[r] = NothingRaised) =>
      /\ response[r].status = HTTP_200_OK
      /\ response[r].original_length = Len(SentText(r).val)
      /\ analyze_calls[r][1].text = SentText(r).val
      /\ anonymize_calls[r][1].text = SentText(r).val
      /\ \A i \in DOMAIN response[r].detected_entities :
           LET e == response[r].detected_entities[i] IN
           \E j \in DOMAIN detector_output[r] :
             LET d == detector_output[r][j] IN
             /\ e.entity_type = d.entity_type
             /\ e.start = d.start
             /\ e.end = d.end
             /\ e.score = d.score

\* C22, in every step: a step of one request's handling leaves the
\* handles, the other routes' data and every other request as they are.
C22_NoSharedWrite ==
  \A r \in Reqs :
    pc'[r] # pc[r] =>
      /\ UNCHANGED <<analyzer_engine, anonymizer_engine, lifespan, probes>>
      /\ \A q \in Reqs \ {r} : LocalsUnchanged(q)

\* C22: under any interleaving of concurrent POST /anonymize requests
\* against Ready handles with non-failing collaborators, every answer is a
\* 200 derived only from its own request, and request processing writes no
\* shared state.
C22_ConcurrentRequestsIsolated ==
  []C22_OwnResponse /\ [][C22_NoSharedWrite]_vars

\* C22 witness: two requests with different texts, the second received
\* while the first was being handled, were both answered 200.
C22_Witness ==
  /\ Succeeded(1)
  /\ Succeeded(2)
  /\ Len(SentText(1).val) # Len(SentText(2).val)
  /\ detector_output[1] # detector_output[2]
  /\ health.status_code = HTTP_200_OK

\* C23: within one request analyze is called at most once, with the
\* request's text and language; anonymize is called at most once and only
\* after analyze returned; a call that raised is not made again.
C23_CallsAtMostOnceInOrder ==
  \A r \in Reqs :
    /\ Len(analyze_calls[r]) <= 1
    /\ Len(anonymize_calls[r]) <= 1
    /\ \A i \in DOMAIN analyze_calls[r] :
         /\ analyze_calls[r][i].text = SentText(r).val
         /\ analyze_calls[r][i].language = request[r].val.language
         /\ SentLanguage(r).tag = "str" => analyze_calls[r][i].language = SentLanguage(r).val
    /\ anonymize_calls[r] # <<>> =>
         /\ Len(analyze_calls[r]) = 1
         /\ pc[r] \in {"anonymizing", "done"}
         /\ raised[r].by # "analyze"
    /\ raised[r].by = "analyze" => (Answered(r) /\ anonymize_calls[r] = <<>>)
    /\ raised[r].by = "anonymize" => Answered(r)

\* C23 witness: anonymize raised after analyze returned; each was called
\* once and the request is answered.
C23_Witness ==
  \E r \in Reqs :
    /\ raised[r].by = "anonymize"
    /\ Len(analyze_calls[r]) = 1
    /\ Len(anonymize_calls[r]) = 1
    /\ SentLanguage(r).tag = "str"
    /\ Answered(r)

\* C25: processing_time_ms of a 200 response is never negative and is at
\* least the time that passed inside the analyze call of that request.
C25_ProcessingTimeCoversAnalyze ==
  \A r \in Reqs :
    Succeeded(r) =>
      /\ response[r].processing_time_ms >= 0
      /\ response[r].processing_time_ms >= analyze_elapsed[r] * 1000

\* C26: while a request is inside a collaborator call, GET /health can be
\* served and another request's handler can start.
C26_SlowCallDoesNotStall ==
  \A a \in Reqs :
    pc[a] \in {"analyzing", "anonymizing"} =>
      /\ ENABLED HealthCheck
      /\ \A b \in Reqs \ {a} : pc[b] = "validated" => ENABLED EnterHandler(b)

\* C27: a request with strategy "encrypt" does not have the Redactor called
\* with operators None, as a request without config has.
C27_EncryptIsNotDefault ==
  \A r \in Reqs :
    (request[r].some /\ request[r].val.config.some
       /\ request[r].val.config.val.strategy = "encrypt") =>
      \A i \in DOMAIN anonymize_calls[r] : anonymize_calls[r][i].operators # None

\* C28: a fault inside the handler that is not a validation failure, a
\* not-ready failure or a collaborator's exception is answered 500 with a
\* message that does not contain the text of the exception.
C28_GenericMessage ==
  \A r \in Reqs :
    raised[r].by = "response" =>
      /\ response[r].status = HTTP_500_INTERNAL_SERVER_ERROR
      /\ \A f \in DOMAIN response[r] \ {"status", "error"} :
           raised[r].exc.msg \notin Range(response[r][f])

\* C29: every anonymize call receives the text as sent and the filtered
\* entity list, and a 200 response reports that same list, element by
\* element in the same order.
C29_ReportedIsWhatWasRedacted ==
  \A r \in Reqs :
    \A i \in DOMAIN anonymize_calls[r] :
      LET call == anonymize_calls[r][i] IN
      /\ call.text = SentText(r).val
      /\ call.analyzer_results = FilterEntities(detector_output[r], request[r].val.config)
      /\ Succeeded(r) =>
           /\ Len(response[r].detected_entities) = Len(call.analyzer_results)
           /\ \A k \in DOMAIN call.analyzer_results :
                LET e == response[r].detected_entities[k]
                    d == call.analyzer_results[k]
                IN /\ e.entity_type = d.entity_type
                   /\ e.start = d.start
                   /\ e.end = d.end
                   /\ e.score = d.score

\* C29 witness: a filter removed an entity of the Detector's output, the
\* rest was handed to the Redactor and reported in a 200 response.
C29_Witness ==
  \E r \in Reqs :
    /\ Succeeded(r)
    /\ Len(anonymize_calls[r][1].analyzer_results) = 1
    /\ Len(detector_output[r]) = 2
    /\ Len(response[r].detected_entities) = 1

\* C30, in every state: an answer to an accepted request is a complete
\* AnonymizeResponse or an error, and a 200 is there only after analyze and
\* anonymize were each called once and returned.
C30_CompleteOrError ==
  \A r \in Reqs :
    /\ (response[r] # NoResponse) <=> Answered(r)
    /\ (Answered(r) /\ errors[r] = {}) =>
         \/ /\ response[r].status = HTTP_200_OK
            /\ DOMAIN response[r] =
                 {"status", "anonymized_text", "detected_entities",
                  "processing_time_ms", "original_length", "anonymized_length"}
            /\ Len(analyze_calls[r]) = 1
            /\ Len(anonymize_calls[r]) = 1
            /\ raised[r] = NothingRaised
            /\ anonymized_result[r].some
         \/ /\ response[r].status # HTTP_200_OK
            /\ DOMAIN response[r] = {"status", "detail"}

\* C30, in every step: an answer given is never replaced.
C30_AnsweredOnce ==
  \A r \in Reqs : Answered(r) => (response'[r] = response[r] /\ Answered(r)')

\* C30: every accepted request gets exactly one outcome, a complete
\* AnonymizeResponse or an error, a 200 only after both collaborator calls
\* returned, and, the collaborator calls returning or raising, it gets that
\* outcome eventually.
C30_ExactlyOneOutcome ==
  /\ []C30_CompleteOrError
  /\ [][C30_AnsweredOnce]_vars
  /\ \A r \in Reqs : (pc[r] = "validated") ~> Answered(r)

\* C30 witness: of two accepted requests one was answered 200 and the
\* other with an error.
C30_Witness ==
  /\ Succeeded(1)
  /\ Answered(2)
  /\ errors[2] = {}
  /\ response[2].status = HTTP_500_INTERNAL_SERVER_ERROR
  /\ raised[2].by = "anonymize"

====
